---- MODULE Spec2Model ----
(***************************************************************************)
(* EvolvX ranking and progression engine (frontend/utils/rankingSystem.js) *)
(* and the screens that consume it.                                        *)
(*                                                                         *)
(* Time is measured in ticks, TicksPerDay ticks to a calendar day.  The     *)
(* device's time zone either has a fixed offset (every local day has the   *)
(* same length) or moves its clocks once, which makes one local day a tick *)
(* shorter or longer than the others.                                      *)
(* A Date whose time value is NaN ("Invalid Date") is the value NaN, and   *)
(* every arithmetic helper propagates it the way IEEE arithmetic does.     *)
(***************************************************************************)
EXTENDS Integers, Sequences, FiniteSets, TLC

\* ------------------------------------------------------------------------
\* Bounds of the model
\* ------------------------------------------------------------------------
MaxWorkouts == 3
MaxDay == 3

\* ------------------------------------------------------------------------
\* Numbers and dates
\* ------------------------------------------------------------------------
TicksPerDay == 2
NaN == 0 - 1000000
Infinity == 1000000

MaxTick == (MaxDay + 1) * TicksPerDay - 1
MaxNow == MaxTick

IsNaN(x) == x = NaN
Add(a, b) == IF IsNaN(a) \/ IsNaN(b) THEN NaN ELSE a + b
Sub(a, b) == IF IsNaN(a) \/ IsNaN(b) THEN NaN ELSE a - b
Max2(a, b) == IF a >= b THEN a ELSE b
Min2(a, b) == IF a <= b THEN a ELSE b
\* Math.max / Math.min return NaN as soon as one argument is NaN
MathMax(a, b) == IF IsNaN(a) \/ IsNaN(b) THEN NaN ELSE Max2(a, b)
MathMin(a, b) == IF IsNaN(a) \/ IsNaN(b) THEN NaN ELSE Min2(a, b)
\* Math.floor(x / d) and Math.ceil(x / d) for a positive integer d
FloorDiv(x, d) == IF IsNaN(x) THEN NaN ELSE x \div d
CeilDiv(x, d) == IF IsNaN(x) THEN NaN ELSE 0 - ((0 - x) \div d)
\* The time zone of the device: "fixed" keeps one offset, "forward" and
\* "back" move the clocks during local day TransitionDay, which then is
\* shorter or longer than TicksPerDay.  Two local midnights are then a whole
\* number of days less or more a part of a day apart, as they are across a
\* daylight-saving change of one hour.
VARIABLE zone

Zones == {"fixed", "forward", "back"}
TransitionDay == 1

DayLength(z, d) ==
  IF d # TransitionDay THEN TicksPerDay
  ELSE CASE z = "forward" -> TicksPerDay - 1
         [] z = "back" -> TicksPerDay + 1
         [] OTHER -> TicksPerDay

\* the tick at which local day d begins
DayStart(z, d) ==
  IF d <= TransitionDay THEN d * TicksPerDay
  ELSE d * TicksPerDay + DayLength(z, TransitionDay) - TicksPerDay

\* the local day in which tick t lies
DayOf(z, t) ==
  IF t < DayStart(z, TransitionDay + 1)
  THEN Min2(t \div TicksPerDay, TransitionDay)
  ELSE (t - (DayLength(z, TransitionDay) - TicksPerDay)) \div TicksPerDay

\* date.setHours(0, 0, 0, 0); date.getTime()
StartOfDay(t) == IF IsNaN(t) THEN NaN ELSE DayStart(zone, DayOf(zone, t))

\* checkDate.setDate(checkDate.getDate() - 1) on a local midnight
PrevDay(t) == DayStart(zone, DayOf(zone, t) - 1)

\* ------------------------------------------------------------------------
\* Array.prototype.sort(comparefn)
\* A comparefn result of NaN counts as +0.  With an Invalid Date in the
\* array the comparefn is not a consistent comparator and the resulting
\* order is implementation-defined: the model carries the two stable
\* algorithms engines use, straight insertion and merging.
\* ------------------------------------------------------------------------
Engines == {"insertion", "merge"}

SortKey(kind, e) == IF kind = "num" THEN e ELSE e.workout_date

Compare(kind, a, b) ==
  LET d == IF kind = "asc" THEN Sub(SortKey(kind, a), SortKey(kind, b))
                           ELSE Sub(SortKey(kind, b), SortKey(kind, a))
  IN IF IsNaN(d) THEN 0 ELSE d

RECURSIVE InsertPos(_, _, _, _)
InsertPos(kind, s, x, j) ==
  IF j >= 1 /\ Compare(kind, s[j], x) > 0
  THEN InsertPos(kind, s, x, j - 1)
  ELSE j

RECURSIVE InsertionSort(_, _)
InsertionSort(kind, s) ==
  IF Len(s) <= 1 THEN s
  ELSE LET n == Len(s)
           front == InsertionSort(kind, SubSeq(s, 1, n - 1))
           x == s[n]
           j == InsertPos(kind, front, x, n - 1)
       IN SubSeq(front, 1, j) \o <<x>> \o SubSeq(front, j + 1, n - 1)

RECURSIVE Merge(_, _, _)
Merge(kind, l, r) ==
  IF Len(l) = 0 THEN r
  ELSE IF Len(r) = 0 THEN l
  ELSE IF Compare(kind, l[1], r[1]) <= 0
       THEN <<l[1]>> \o Merge(kind, Tail(l), r)
       ELSE <<r[1]>> \o Merge(kind, l, Tail(r))

RECURSIVE MergeSort(_, _)
MergeSort(kind, s) ==
  IF Len(s) <= 1 THEN s
  ELSE LET n == Len(s)
           mid == (n + 1) \div 2
       IN Merge(kind, MergeSort(kind, SubSeq(s, 1, mid)),
                      MergeSort(kind, SubSeq(s, mid + 1, n)))

ArraySort(eng, kind, s) ==
  IF eng = "insertion" THEN InsertionSort(kind, s) ELSE MergeSort(kind, s)

\* [...new Set(array)]: first occurrences in insertion order; NaN equals NaN
RECURSIVE UniqueValues(_)
UniqueValues(s) ==
  IF Len(s) = 0 THEN <<>>
  ELSE LET front == UniqueValues(SubSeq(s, 1, Len(s) - 1))
           x == s[Len(s)]
       IN IF \E i \in 1..Len(front) : front[i] = x THEN front
          ELSE Append(front, x)

\* ------------------------------------------------------------------------
\* RANKS
\* ------------------------------------------------------------------------
RANKS ==
  << [name |-> "Bronze",   level |-> 1, minPoints |-> 0,    maxPoints |-> 99],
     [name |-> "Silver",   level |-> 2, minPoints |-> 100,  maxPoints |-> 299],
     [name |-> "Gold",     level |-> 3, minPoints |-> 300,  maxPoints |-> 599],
     [name |-> "Platinum", level |-> 4, minPoints |-> 600,  maxPoints |-> 999],
     [name |-> "Diamond",  level |-> 5, minPoints |-> 1000, maxPoints |-> Infinity] >>

\* JavaScript relational operators: any comparison with NaN is false
Geq(a, b) == ~IsNaN(a) /\ ~IsNaN(b) /\ a >= b
Leq(a, b) == ~IsNaN(a) /\ ~IsNaN(b) /\ (b = Infinity \/ a <= b)

\* ------------------------------------------------------------------------
\* calculateRankingPoints
\* ------------------------------------------------------------------------
Mul(a, k) == IF IsNaN(a) THEN NaN ELSE a * k

\* calculateRankingPoints with the consistency bonus turned into a penalty
calculateRankingPoints_penalty(userStats) ==
  LET p1 == Add(0, Mul(userStats.totalWorkouts, 2))
      p2 == Add(p1, Mul(userStats.currentStreak, 3))
      p3 == Add(p2, Mul(userStats.longestStreak, 1))
      p4 == Add(p3, FloorDiv(userStats.totalExercises, 5))
      p5 == Add(p4, Sub(100, userStats.consistencyScore))
      p6 == Add(p5, Mul(userStats.personalRecords, 10))
      p7 == Add(p6, FloorDiv(userStats.workoutDays, 7))
  IN MathMax(0, p7)

\* calculateRankingPoints with the two streak weights exchanged
calculateRankingPoints_swapped(userStats) ==
  LET p1 == Add(0, Mul(userStats.totalWorkouts, 2))
      p2 == Add(p1, Mul(userStats.currentStreak, 1))
      p3 == Add(p2, Mul(userStats.longestStreak, 3))
      p4 == Add(p3, FloorDiv(userStats.totalExercises, 5))
      p5 == Add(p4, userStats.consistencyScore)
      p6 == Add(p5, Mul(userStats.personalRecords, 10))
      p7 == Add(p6, FloorDiv(userStats.workoutDays, 7))
  IN MathMax(0, p7)

calculateRankingPoints(userStats) ==
  LET p1 == Add(0, Mul(userStats.totalWorkouts, 2))
      p2 == Add(p1, Mul(userStats.currentStreak, 3))
      p3 == Add(p2, Mul(userStats.longestStreak, 1))
      p4 == Add(p3, FloorDiv(userStats.totalExercises, 5))
      p5 == Add(p4, userStats.consistencyScore)
      p6 == Add(p5, Mul(userStats.personalRecords, 10))
      p7 == Add(p6, FloorDiv(userStats.workoutDays, 7))
  IN MathMax(0, p7)

\* ------------------------------------------------------------------------
\* getProgressToNextRank, getPointsToNextRank, getNextRank, getUserRank
\* A progress percentage is the fraction num / den, den > 0.
\* ------------------------------------------------------------------------
Percent(n) == [num |-> n, den |-> 1]

InRange(points, rank) == Geq(points, rank.minPoints) /\ Leq(points, rank.maxPoints)

\* getProgressToNextRank counting the point at minPoints as progress made
RECURSIVE ProgressFrom_plusOne(_, _)
ProgressFrom_plusOne(points, i) ==
  IF i > Len(RANKS) THEN Percent(0)
  ELSE LET rank == RANKS[i]
       IN IF InRange(points, rank)
          THEN IF rank.maxPoints = Infinity THEN Percent(100)
               ELSE LET n == (points - rank.minPoints + 1) * 100
                        d == rank.maxPoints - rank.minPoints
                    IN IF n < 0 THEN Percent(0)
                       ELSE IF n > 100 * d THEN Percent(100)
                       ELSE [num |-> n, den |-> d]
          ELSE ProgressFrom_plusOne(points, i + 1)

RECURSIVE ProgressFrom(_, _)
ProgressFrom(points, i) ==
  IF i > Len(RANKS) THEN Percent(0)
  ELSE LET rank == RANKS[i]
       IN IF InRange(points, rank)
          THEN IF rank.maxPoints = Infinity THEN Percent(100)
               ELSE LET n == (points - rank.minPoints) * 100
                        d == rank.maxPoints - rank.minPoints
                    IN IF n < 0 THEN Percent(0)
                       ELSE IF n > 100 * d THEN Percent(100)
                       ELSE [num |-> n, den |-> d]
          ELSE ProgressFrom(points, i + 1)

getProgressToNextRank(points) == ProgressFrom(points, 1)

\* getPointsToNextRank returning rank.maxPoints - points
RECURSIVE PointsToNextFrom_toMax(_, _)
PointsToNextFrom_toMax(points, i) ==
  IF i > Len(RANKS) THEN Sub(RANKS[1].maxPoints + 1, points)
  ELSE LET rank == RANKS[i]
       IN IF InRange(points, rank)
          THEN IF rank.maxPoints = Infinity THEN 0
               ELSE rank.maxPoints - points
          ELSE PointsToNextFrom_toMax(points, i + 1)

RECURSIVE PointsToNextFrom(_, _)
PointsToNextFrom(points, i) ==
  IF i > Len(RANKS) THEN Sub(RANKS[1].maxPoints + 1, points)
  ELSE LET rank == RANKS[i]
       IN IF InRange(points, rank)
          THEN IF rank.maxPoints = Infinity THEN 0
               ELSE rank.maxPoints + 1 - points
          ELSE PointsToNextFrom(points, i + 1)

getPointsToNextRank(points) == PointsToNextFrom(points, 1)

NoRank == 0

RECURSIVE NextRankFrom(_, _)
NextRankFrom(currentPoints, i) ==
  IF i > Len(RANKS) - 1 THEN NoRank
  ELSE IF InRange(currentPoints, RANKS[i]) THEN i + 1
  ELSE NextRankFrom(currentPoints, i + 1)

\* the index in RANKS of the next rank, NoRank for null
getNextRank(currentPoints) == NextRankFrom(currentPoints, 1)

RankObject(rank, points) ==
  [name |-> rank.name, level |-> rank.level,
   minPoints |-> rank.minPoints, maxPoints |-> rank.maxPoints,
   currentPoints |-> points,
   progressToNext |-> getProgressToNextRank(points),
   pointsToNext |-> getPointsToNextRank(points)]

\* getUserRank testing points > rank.minPoints
RECURSIVE UserRankFrom_strict(_, _)
UserRankFrom_strict(points, i) ==
  IF i < 1 THEN RankObject(RANKS[1], points)
  ELSE IF Geq(points, RANKS[i].minPoints + 1) THEN RankObject(RANKS[i], points)
  ELSE UserRankFrom_strict(points, i - 1)

\* getUserRank testing points >= rank.maxPoints
RECURSIVE UserRankFrom_byMax(_, _)
UserRankFrom_byMax(points, i) ==
  IF i < 1 THEN RankObject(RANKS[1], points)
  ELSE IF Geq(points, RANKS[i].maxPoints) THEN RankObject(RANKS[i], points)
  ELSE UserRankFrom_byMax(points, i - 1)

\* getUserRank testing rank.minPoints <= points < rank.maxPoints
RECURSIVE UserRankFrom_belowMax(_, _)
UserRankFrom_belowMax(points, i) ==
  IF i < 1 THEN RankObject(RANKS[1], points)
  ELSE IF /\ Geq(points, RANKS[i].minPoints)
          /\ (RANKS[i].maxPoints = Infinity \/ points < RANKS[i].maxPoints)
       THEN RankObject(RANKS[i], points)
  ELSE UserRankFrom_belowMax(points, i - 1)

RECURSIVE UserRankFrom(_, _)
UserRankFrom(points, i) ==
  IF i < 1 THEN RankObject(RANKS[1], points)
  ELSE IF Geq(points, RANKS[i].minPoints) THEN RankObject(RANKS[i], points)
  ELSE UserRankFrom(points, i - 1)

getUserRank(points) == UserRankFrom(points, Len(RANKS))

\* ------------------------------------------------------------------------
\* calculateStreaks
\* ------------------------------------------------------------------------
RECURSIVE CurrentStreakLoop(_, _, _, _)
CurrentStreakLoop(workoutDates, i, checkDate, currentStreak) ==
  IF i > Len(workoutDates) THEN currentStreak
  ELSE LET workoutDate == workoutDates[i]
           daysDiff == FloorDiv(Sub(checkDate, workoutDate), TicksPerDay)
       IN IF daysDiff = 0 \/ daysDiff = 1
          THEN CurrentStreakLoop(workoutDates, i + 1,
                                 PrevDay(workoutDate), currentStreak + 1)
          ELSE currentStreak

RECURSIVE LongestStreakLoop(_, _, _, _)
LongestStreakLoop(workoutDates, i, longestStreak, tempStreak) ==
  IF i > Len(workoutDates) THEN Max2(longestStreak, tempStreak)
  ELSE LET daysDiff == FloorDiv(Sub(workoutDates[i - 1], workoutDates[i]), TicksPerDay)
       IN IF daysDiff = 1
          THEN LongestStreakLoop(workoutDates, i + 1, longestStreak, tempStreak + 1)
          ELSE LongestStreakLoop(workoutDates, i + 1,
                                 Max2(longestStreak, tempStreak), 1)

\* WorkoutDates without the Set: one entry per workout
WorkoutDates_everyWorkout(eng, sortedWorkouts) ==
  ArraySort(eng, "num",
    [i \in 1..Len(sortedWorkouts) |->
       StartOfDay(sortedWorkouts[i].workout_date)])

\* the distinct local days of the workouts, newest first
WorkoutDates(eng, sortedWorkouts) ==
  ArraySort(eng, "num",
    UniqueValues([i \in 1..Len(sortedWorkouts) |->
                    StartOfDay(sortedWorkouts[i].workout_date)]))

\* array: the caller's array after the in-place sort
calculateStreaks(eng, workouts, clock) ==
  IF Len(workouts) = 0
  THEN [currentStreak |-> 0, longestStreak |-> 0, array |-> workouts]
  ELSE LET sortedWorkouts == ArraySort(eng, "desc", workouts)
           today == StartOfDay(clock)
           workoutDates == WorkoutDates(eng, sortedWorkouts)
       IN [currentStreak |-> CurrentStreakLoop(workoutDates, 1, today, 0),
           longestStreak |-> LongestStreakLoop(workoutDates, 2, 0, 1),
           array |-> sortedWorkouts]

\* ------------------------------------------------------------------------
\* calculateUserStats
\* ------------------------------------------------------------------------
\* String.prototype.toLowerCase on the exercise names of the model
ToLowerCase(name) ==
  CASE name = "Squat" -> "squat"
    [] name = "Bench" -> "bench"
    [] OTHER -> name

\* exercise.name?.toLowerCase() || 'unknown'; a missing name is ""
ExerciseKey(name) == IF ToLowerCase(name) = "" THEN "unknown" ELSE ToLowerCase(name)

UniqueExercises(workouts) ==
  UNION { { ExerciseKey(workouts[i].exercises[j]) :
              j \in 1..Len(workouts[i].exercises) } : i \in 1..Len(workouts) }

\* (tw, wd) for which the IEEE-754 double value of tw / (wd / 7) * 20 lies
\* just below the integer that exact arithmetic gives
FloatShortfall == { <<7, 10>>, <<7, 20>>, <<9, 18>> }

ConsistencyScore(totalWorkouts, workoutDays) ==
  IF IsNaN(workoutDays) THEN NaN
  ELSE LET exact == IF workoutDays <= 7 THEN totalWorkouts * 20
                    ELSE (totalWorkouts * 140) \div workoutDays
           floored == IF <<totalWorkouts, workoutDays>> \in FloatShortfall
                      THEN exact - 1 ELSE exact
       IN Min2(100, floored)

ZeroStats ==
  [totalWorkouts |-> 0, currentStreak |-> 0, longestStreak |-> 0,
   totalExercises |-> 0, workoutDays |-> 0, personalRecords |-> 0,
   consistencyScore |-> 0]

\* calculateUserStats counting workoutDays from the first workout to today
calculateUserStats_sinceFirst(eng, workouts, clock) ==
  IF Len(workouts) = 0 THEN [stats |-> ZeroStats, array |-> workouts]
  ELSE LET sortedWorkouts == ArraySort(eng, "asc", workouts)
           totalWorkouts == Len(sortedWorkouts)
           firstWorkoutDate == sortedWorkouts[1].workout_date
           workoutDays == Add(CeilDiv(Sub(StartOfDay(clock), firstWorkoutDate),
                                      TicksPerDay), 1)
           streaks == calculateStreaks(eng, sortedWorkouts, clock)
       IN [stats |->
             [totalWorkouts |-> totalWorkouts,
              currentStreak |-> streaks.currentStreak,
              longestStreak |-> streaks.longestStreak,
              totalExercises |-> Cardinality(UniqueExercises(sortedWorkouts)),
              workoutDays |-> workoutDays,
              personalRecords |-> totalWorkouts \div 5,
              consistencyScore |-> ConsistencyScore(totalWorkouts, workoutDays)],
           array |-> streaks.array]

\* stats: the returned UserStats; array: the caller's array after the call
calculateUserStats(eng, workouts, clock) ==
  IF Len(workouts) = 0 THEN [stats |-> ZeroStats, array |-> workouts]
  ELSE LET sortedWorkouts == ArraySort(eng, "asc", workouts)
           totalWorkouts == Len(sortedWorkouts)
           firstWorkoutDate == sortedWorkouts[1].workout_date
           lastWorkoutDate == sortedWorkouts[Len(sortedWorkouts)].workout_date
           workoutDays == Add(CeilDiv(Sub(lastWorkoutDate, firstWorkoutDate),
                                      TicksPerDay), 1)
           streaks == calculateStreaks(eng, sortedWorkouts, clock)
       IN [stats |->
             [totalWorkouts |-> totalWorkouts,
              currentStreak |-> streaks.currentStreak,
              longestStreak |-> streaks.longestStreak,
              totalExercises |-> Cardinality(UniqueExercises(sortedWorkouts)),
              workoutDays |-> workoutDays,
              personalRecords |-> totalWorkouts \div 5,
              consistencyScore |-> ConsistencyScore(totalWorkouts, workoutDays)],
           array |-> streaks.array]

\* calculateUserStats guarding workouts.length === 0 only: reading .length
\* of null throws a TypeError
calculateUserStatsWith_lengthOnly(eng, passed, workouts, clock) ==
  LET bound == IF passed = "undefined" THEN "array" ELSE passed
  IN IF bound = "null"
     THEN [threw |-> TRUE, stats |-> ZeroStats, array |-> workouts]
     ELSE LET r == calculateUserStats(eng, workouts, clock)
          IN [threw |-> FALSE, stats |-> r.stats, array |-> r.array]

\* the call calculateUserStats(x): passed tells whether x is an array (then
\* workouts is that array), null, or undefined (the argument left out).
\* The default parameter workouts = [] binds an undefined argument to an
\* empty array; !workouts returns the zero UserStats for null.
calculateUserStatsWith(eng, passed, workouts, clock) ==
  LET bound == IF passed = "undefined" THEN "array" ELSE passed
  IN IF bound = "null"
     THEN [threw |-> FALSE, stats |-> ZeroStats, array |-> workouts]
     ELSE LET r == calculateUserStats(eng, workouts, clock)
          IN [threw |-> FALSE, stats |-> r.stats, array |-> r.array]

\* ------------------------------------------------------------------------
\* State
\* ------------------------------------------------------------------------
VARIABLES
  passed,     \* what the caller passes as workouts: "array", "null", "undefined"
  threw,      \* the last calculateUserStats call threw
  engine,     \* the sort algorithm of the JavaScript engine the build runs on
  clock,      \* the time new Date() reads
  workouts,   \* the caller's workout array (ProfileScreen's workoutData)
  stats,      \* <<>> or <<the UserStats the last calculateUserStats returned>>
  given,      \* the caller's array as it was when that call was made
  calledAt,   \* the start of the day on which that call was made
  scoreIn,    \* the UserStats handed to calculateRankingPoints
  scoreOut,   \* <<>> or <<the point total it returned>>
  scorePrev,  \* <<>> or <<[stats, points]>>: the scored pair before a raise
  total,      \* the point total handed to getUserRank
  rank,       \* <<>> or <<the rank object getUserRank returned>>
  users,      \* the server's user rows, in upstream order
  leaderboard,          \* LeaderboardScreen state
  filteredLeaderboard,  \* LeaderboardScreen state: the rows rendered
  searchQuery,          \* LeaderboardScreen state
  userFilter,           \* LeaderboardScreen state: "all" or "friends"
  ageRange,             \* LeaderboardScreen state: NoAge or [min, max]
  loading,              \* LeaderboardScreen state
  refreshing,           \* LeaderboardScreen state
  error,                \* LeaderboardScreen state: an error message is set
  pending,    \* the api.get requests of loadLeaderboard still in flight
  loadedFor,  \* <<>> or <<the request whose response is in leaderboard>>
  history,      \* the workouts the server holds for the signed-in user
  serverEntry,  \* <<>> or <<the user's entry in the server's leaderboard>>
  userRank,     \* ProfileScreen / AvatarScreen state: <<>> for null, or <<rank>>
  userStats,    \* ProfileScreen / AvatarScreen state: <<>> for null, or <<stats>>
  profileError, \* ProfileScreen / AvatarScreen state: an error message is set
  loadPath,     \* the branch the last loadProfile / loadCharacterData took
  asyncStorage,  \* AsyncStorage: what 'auth_token' and 'user' hold
  token,         \* AuthProvider state
  user,          \* AuthProvider state
  authLoading,   \* AuthProvider state: loading
  authError,     \* AuthProvider state: error
  authorization, \* api.defaults.headers.common.Authorization
  boot,          \* where the boot effect stands
  storedToken,   \* the boot effect's storedToken
  userJson,      \* the boot effect's userJson
  loginAt,       \* where the login call in progress stands, or "idle"
  logouts,       \* the logout calls in progress: where each stands, who called
  screen,        \* the route on top of the navigator: "Login" or "Home"
  inFlight       \* the api requests of the main screens still unanswered

statsVars == <<zone, engine, clock, passed, workouts, stats, threw, given, calledAt>>
rankVars == <<scoreIn, scoreOut, scorePrev, total, rank>>
boardVars == <<users, leaderboard, filteredLeaderboard, searchQuery, userFilter,
               ageRange, loading, refreshing, error, pending, loadedFor>>
profileVars == <<history, serverEntry, userRank, userStats, profileError, loadPath>>
authVars == <<asyncStorage, token, user, authLoading, authError, authorization,
              boot, storedToken, userJson, loginAt, logouts, screen, inFlight>>
vars == <<statsVars, rankVars, boardVars, profileVars, authVars>>

StatsIdle ==
  /\ zone = "fixed"
  /\ passed = "array"
  /\ threw = FALSE
  /\ engine = "insertion"
  /\ clock = 0
  /\ workouts = <<>>
  /\ stats = <<>>
  /\ given = <<>>
  /\ calledAt = 0

RankIdle ==
  /\ scoreIn = ZeroStats
  /\ scoreOut = <<>>
  /\ scorePrev = <<>>
  /\ total = 0
  /\ rank = <<>>

NoAge == [min |-> 0, max |-> 0]

BoardIdle ==
  /\ users = <<>>
  /\ leaderboard = <<>>
  /\ filteredLeaderboard = <<>>
  /\ searchQuery = <<>>
  /\ userFilter = "all"
  /\ ageRange = NoAge
  /\ loading = FALSE
  /\ refreshing = FALSE
  /\ error = FALSE
  /\ pending = <<>>
  /\ loadedFor = <<>>

NoLoad == [screen |-> "none", path |-> "none"]

ProfileIdle ==
  /\ history = <<>>
  /\ serverEntry = <<>>
  /\ userRank = <<>>
  /\ userStats = <<>>
  /\ profileError = FALSE
  /\ loadPath = NoLoad

Null == "null"
NoLogouts == <<>>

AuthIdle ==
  /\ asyncStorage = [auth_token |-> Null, user |-> Null]
  /\ token = Null
  /\ user = Null
  /\ authLoading = FALSE
  /\ authError = ""
  /\ authorization = Null
  /\ boot = "done"
  /\ storedToken = Null
  /\ userJson = Null
  /\ loginAt = "idle"
  /\ logouts = NoLogouts
  /\ screen = "Login"
  /\ inFlight = 0

\* ------------------------------------------------------------------------
\* The stats engine: a workout history, the clock, calls of calculateUserStats
\* ------------------------------------------------------------------------
DateValues == (0..MaxTick) \cup {NaN}

\* the exercises logged in the i-th record of the history
ExercisesOf(i) ==
  CASE i = 1 -> <<"Squat", "squat">>
    [] i = 2 -> <<"Bench">>
    [] i = 3 -> <<"">>
    [] OTHER -> <<>>

Histories ==
  UNION { { [i \in 1..n |-> [id |-> i, workout_date |-> d[i],
                             exercises |-> ExercisesOf(i)]] :
              d \in [1..n -> DateValues] } : n \in 0..MaxWorkouts }

\* Sorting is stable, so on valid dates every engine orders alike; the
\* engines can differ only when an Invalid Date makes the comparator
\* inconsistent.
Init ==
  /\ zone = "fixed"
  /\ \/ passed = "array" /\ workouts \in Histories
     \/ passed \in {"null", "undefined"} /\ workouts = <<>>
  /\ threw = FALSE
  /\ engine \in IF \E i \in 1..Len(workouts) : IsNaN(workouts[i].workout_date)
                THEN Engines ELSE {"insertion"}
  /\ clock = TicksPerDay - 1
  /\ stats = <<>>
  /\ given = workouts
  /\ calledAt = 0
  /\ RankIdle
  /\ BoardIdle
  /\ ProfileIdle
  /\ AuthIdle

\* a day passes
Tick ==
  /\ clock + TicksPerDay <= MaxNow
  /\ clock' = clock + TicksPerDay
  /\ UNCHANGED <<zone, engine, passed, workouts, stats, threw, given, calledAt>>
  /\ UNCHANGED <<rankVars, boardVars, profileVars, authVars>>

\* const stats = calculateUserStats(workoutData, user)
CallCalculateUserStats ==
  \E r \in {calculateUserStatsWith(engine, passed, workouts, clock)} :
     /\ threw' = r.threw
     /\ stats' = IF r.threw THEN stats ELSE <<r.stats>>
     /\ workouts' = r.array
     /\ given' = workouts
     /\ calledAt' = StartOfDay(clock)
     /\ UNCHANGED <<zone, engine, clock, passed>>
     /\ UNCHANGED <<rankVars, boardVars, profileVars, authVars>>

Next == Tick \/ CallCalculateUserStats

Spec == Init /\ [][Next]_vars

\* ------------------------------------------------------------------------
\* The streak calculation on devices in any of the time zones: histories
\* with valid dates, the same calls
\* ------------------------------------------------------------------------
ValidHistories ==
  UNION { { [i \in 1..n |-> [id |-> i, workout_date |-> d[i],
                             exercises |-> ExercisesOf(i)]] :
              d \in [1..n -> 0..MaxTick] } : n \in 0..MaxWorkouts }

StreakInit ==
  /\ zone \in Zones
  /\ passed = "array"
  /\ workouts \in ValidHistories
  /\ threw = FALSE
  /\ engine = "insertion"
  /\ clock = TicksPerDay - 1
  /\ stats = <<>>
  /\ given = workouts
  /\ calledAt = 0
  /\ RankIdle
  /\ BoardIdle
  /\ ProfileIdle
  /\ AuthIdle

SpecStreak == StreakInit /\ [][Next]_vars

\* ------------------------------------------------------------------------
\* calculateUserStats on longer training logs: totalWorkouts workouts whose
\* first and last dates span a given number of days
\* ------------------------------------------------------------------------
MaxCount == 9
MaxSpan == 20

\* n workouts: the last one on the morning of day d - 1, the others on the
\* morning of day 0
TrainingLog(n, d) ==
  [i \in 1..n |-> [id |-> i,
                   workout_date |-> IF i = n THEN (d - 1) * TicksPerDay ELSE 0,
                   exercises |-> ExercisesOf(i)]]

TrainingLogs ==
  { TrainingLog(n, d) : n \in 2..MaxCount, d \in 1..MaxSpan }
    \cup { TrainingLog(1, 1) }

LogInit ==
  /\ zone = "fixed"
  /\ passed = "array"
  /\ workouts \in TrainingLogs
  /\ threw = FALSE
  /\ engine = "insertion"
  /\ clock = TicksPerDay - 1
  /\ stats = <<>>
  /\ given = workouts
  /\ calledAt = 0
  /\ RankIdle
  /\ BoardIdle
  /\ ProfileIdle
  /\ AuthIdle

SpecLog == LogInit /\ [][Next]_vars

\* ------------------------------------------------------------------------
\* Scoring and tier resolution: calculateRankingPoints and getUserRank
\* applied to UserStats and point totals drawn from bounded sets
\* ------------------------------------------------------------------------
MaxRaise == 3
MaxPoints == 1100

StatFields == {"totalWorkouts", "currentStreak", "longestStreak", "totalExercises",
               "workoutDays", "personalRecords", "consistencyScore"}

\* the UserStats of the documented scoring example
ExampleStats ==
  [totalWorkouts |-> 50, currentStreak |-> 7, longestStreak |-> 10,
   totalExercises |-> 20, workoutDays |-> 60, personalRecords |-> 10,
   consistencyScore |-> 80]

Samples(f) == {0 - 1, 0, 4, ExampleStats[f]}

SampleStats ==
  [totalWorkouts : Samples("totalWorkouts"), currentStreak : Samples("currentStreak"),
   longestStreak : Samples("longestStreak"), totalExercises : Samples("totalExercises"),
   workoutDays : Samples("workoutDays"), personalRecords : Samples("personalRecords"),
   consistencyScore : Samples("consistencyScore")]

RankInit ==
  /\ StatsIdle
  /\ BoardIdle
  /\ ProfileIdle
  /\ AuthIdle
  /\ scoreOut = <<>>
  /\ scorePrev = <<>>
  /\ rank = <<>>
  /\ \/ scoreIn \in SampleStats /\ total = 0
     \/ scoreIn = ZeroStats /\ total \in 0..MaxPoints

\* const points = calculateRankingPoints(stats)
Score ==
  /\ scoreOut = <<>>
  /\ scoreOut' = <<calculateRankingPoints(scoreIn)>>
  /\ UNCHANGED <<scoreIn, scorePrev, total, rank>>
  /\ UNCHANGED <<statsVars, boardVars, profileVars, authVars>>

\* one field of the UserStats grows and the stats are scored again
Raise ==
  /\ scoreOut # <<>>
  /\ scorePrev = <<>>
  /\ \E f \in StatFields, d \in 1..MaxRaise :
       /\ scoreIn' = [scoreIn EXCEPT ![f] = @ + d]
       /\ scoreOut' = <<calculateRankingPoints(scoreIn')>>
  /\ scorePrev' = <<[stats |-> scoreIn, points |-> scoreOut[1]]>>
  /\ UNCHANGED <<total, rank>>
  /\ UNCHANGED <<statsVars, boardVars, profileVars, authVars>>

\* const rank = getUserRank(points), on the total just scored
ResolveScore ==
  /\ scoreOut # <<>>
  /\ rank = <<>>
  /\ total' = scoreOut[1]
  /\ rank' = <<getUserRank(scoreOut[1])>>
  /\ UNCHANGED <<scoreIn, scoreOut, scorePrev>>
  /\ UNCHANGED <<statsVars, boardVars, profileVars, authVars>>

\* getUserRank(points) on a stored point total
ResolveTotal ==
  /\ scoreOut = <<>>
  /\ rank = <<>>
  /\ rank' = <<getUserRank(total)>>
  /\ UNCHANGED <<scoreIn, scoreOut, scorePrev, total>>
  /\ UNCHANGED <<statsVars, boardVars, profileVars, authVars>>

RankNext == Score \/ Raise \/ ResolveScore \/ ResolveTotal

SpecRank == RankInit /\ [][RankNext]_vars

\* ------------------------------------------------------------------------
\* LeaderboardScreen and the leaderboard endpoints it loads from
\* A string is the sequence of its characters.
\* ------------------------------------------------------------------------
MaxUsers == 3
MaxPending == 2

LowerChar(c) ==
  CASE c = "A" -> "a"
    [] c = "B" -> "b"
    [] c = "L" -> "l"
    [] OTHER -> c

\* String.prototype.toLowerCase
StrLower(str) == [i \in 1..Len(str) |-> LowerChar(str[i])]

\* String.prototype.trim
RECURSIVE StrTrim(_)
StrTrim(str) ==
  IF Len(str) = 0 THEN str
  ELSE IF str[1] = " " THEN StrTrim(Tail(str))
  ELSE IF str[Len(str)] = " " THEN StrTrim(SubSeq(str, 1, Len(str) - 1))
  ELSE str

\* String.prototype.includes
StrIncludes(str, part) ==
  \E k \in 0..(Len(str) - Len(part)) : SubSeq(str, k + 1, k + Len(part)) = part

\* the username, the age of the i-th user row
UsernameOf(i) ==
  CASE i = 1 -> <<"A", "l">>
    [] i = 2 -> <<"b", "a", "L">>
    [] i = 3 -> <<"B", "o">>
    [] OTHER -> <<"a", " ", "b">>

AgeOf(i) ==
  CASE i = 1 -> 20
    [] i = 2 -> 35
    [] i = 3 -> 25
    [] OTHER -> 50

PointValues == {0, 120}

\* a property the entry does not have
Undefined == 0 - 2000000

\* a || b on numbers: 0, NaN and undefined are falsy
OrElse(a, b) == IF a = 0 \/ IsNaN(a) \/ a = Undefined THEN b ELSE a

\* Math.round(entry.mmr_score || entry.total_points || 0); the point totals
\* are integers, which Math.round returns unchanged
DisplayedScore(entry) == OrElse(entry.mmr_score, OrElse(entry.total_points, 0))
SearchQueries == { <<>>, <<" ">>, <<"A", "L">> }
AgeRanges == { NoAge, [min |-> 18, max |-> 30] }

\* the rows of the signed-in user's accepted friends: none, the first k or
\* the last k rows of the upstream order
FriendSets ==
  { 1..k : k \in 0..MaxUsers } \cup { k..MaxUsers : k \in 1..MaxUsers }

UserTables ==
  { [i \in 1..MaxUsers |->
       [user_id |-> i, username |-> UsernameOf(i), age |-> AgeOf(i),
        total_points |-> p[i], mmr_score |-> Undefined, friend |-> i \in f]] :
      p \in [1..MaxUsers -> PointValues], f \in FriendSets }

\* the rows a request asks for: the friends endpoint keeps the user's
\* accepted friends, min_age / max_age keep the ages in the range
Passes(row, request) ==
  /\ (request.endpoint = "friends" => row.friend)
  /\ (request.params # NoAge =>
        row.age >= request.params.min /\ row.age <= request.params.max)

\* entries in descending total_points, entries with equal points in the
\* order they come in
RECURSIVE RankDescending(_)
RankDescending(entries) ==
  IF Len(entries) <= 1 THEN entries
  ELSE LET n == Len(entries)
           front == RankDescending(SubSeq(entries, 1, n - 1))
           e == entries[n]
           k == Cardinality({ i \in 1..(n - 1) : front[i].total_points >= e.total_points })
       IN SubSeq(front, 1, k) \o <<e>> \o SubSeq(front, k + 1, n - 1)

\* response.data.leaderboard of GET /rankings/leaderboard[/friends]
ServerLeaderboard(rows, request) ==
  LET Keep(row) == Passes(row, request)
  IN RankDescending(SelectSeq(rows, Keep))

\* the search effect collecting its matches last-first
SearchEffect_reversed(board, query) ==
  IF StrTrim(query) = <<>> THEN board
  ELSE LET q == StrLower(query)
           Match(entry) == StrIncludes(StrLower(entry.username), q)
           found == SelectSeq(board, Match)
       IN [i \in 1..Len(found) |-> found[Len(found) + 1 - i]]

\* the effect on [searchQuery, leaderboard]
SearchEffect(board, query) ==
  IF StrTrim(query) = <<>> THEN board
  ELSE LET q == StrLower(query)
           Match(entry) == StrIncludes(StrLower(entry.username), q)
       IN SelectSeq(board, Match)

\* the request loadLeaderboard builds from the state of its render
Request(filter, range) ==
  [endpoint |-> IF filter = "friends" THEN "friends" ELSE "all", params |-> range]

\* rows numbered by the entry's place in the whole leaderboard
RenderedRows_globalIndex ==
  [i \in 1..Len(filteredLeaderboard) |->
     LET entry == filteredLeaderboard[i]
         index == (CHOOSE k \in 1..Len(leaderboard) : leaderboard[k] = entry) - 1
     IN [rankNumber |-> index + 1, user_id |-> entry.user_id,
         username |-> entry.username, mmrScore |-> DisplayedScore(entry)]]

\* filteredLeaderboard.map(renderLeaderboardEntry): index is zero-based
RenderedRows ==
  [i \in 1..Len(filteredLeaderboard) |->
     LET index == i - 1
         entry == filteredLeaderboard[i]
     IN [rankNumber |-> index + 1, user_id |-> entry.user_id,
         username |-> entry.username, mmrScore |-> DisplayedScore(entry)]]

\* the screen after mounting: the load effect has called loadLeaderboard
BoardInit ==
  /\ StatsIdle
  /\ RankIdle
  /\ ProfileIdle
  /\ AuthIdle
  /\ users \in UserTables
  /\ leaderboard = <<>>
  /\ filteredLeaderboard = <<>>
  /\ searchQuery = <<>>
  /\ userFilter = "all"
  /\ ageRange = NoAge
  /\ loading = TRUE
  /\ refreshing = FALSE
  /\ error = FALSE
  /\ pending = <<Request("all", NoAge)>>
  /\ loadedFor = <<>>

\* loadLeaderboard up to its await
StartLoad(filter, range) ==
  /\ Len(pending) < MaxPending
  /\ error' = FALSE
  /\ loading' = TRUE
  /\ pending' = Append(pending, Request(filter, range))

\* setUserFilter(value); the load effect runs again
SetUserFilter ==
  /\ \E value \in {"all", "friends"} :
       /\ value # userFilter
       /\ userFilter' = value
       /\ StartLoad(value, ageRange)
  /\ UNCHANGED <<users, leaderboard, filteredLeaderboard, searchQuery, ageRange,
                 refreshing, loadedFor>>
  /\ UNCHANGED <<statsVars, rankVars, profileVars, authVars>>

\* setAgeRange(range.value): a range object is a new object on every render,
\* so only a repeated null leaves the state as it is
SetAgeRange ==
  /\ \E value \in AgeRanges :
       /\ value # NoAge \/ ageRange # NoAge
       /\ ageRange' = value
       /\ StartLoad(userFilter, value)
  /\ UNCHANGED <<users, leaderboard, filteredLeaderboard, searchQuery, userFilter,
                 refreshing, loadedFor>>
  /\ UNCHANGED <<statsVars, rankVars, profileVars, authVars>>

\* onRefresh
Refresh ==
  /\ refreshing' = TRUE
  /\ StartLoad(userFilter, ageRange)
  /\ UNCHANGED <<users, leaderboard, filteredLeaderboard, searchQuery, userFilter,
                 ageRange, loadedFor>>
  /\ UNCHANGED <<statsVars, rankVars, profileVars, authVars>>

RemoveAt(seq, k) == SubSeq(seq, 1, k - 1) \o SubSeq(seq, k + 1, Len(seq))

\* a request is answered: loadLeaderboard from its await to the end, then
\* the search effect on the new leaderboard
LoadSucceeds ==
  /\ \E k \in 1..Len(pending) :
       LET leaderboardData == ServerLeaderboard(users, pending[k])
       IN /\ leaderboard' = leaderboardData
          /\ filteredLeaderboard' = SearchEffect(leaderboardData, searchQuery)
          /\ loadedFor' = <<pending[k]>>
          /\ pending' = RemoveAt(pending, k)
  /\ loading' = FALSE
  /\ refreshing' = FALSE
  /\ UNCHANGED <<users, searchQuery, userFilter, ageRange, error>>
  /\ UNCHANGED <<statsVars, rankVars, profileVars, authVars>>

\* a request fails: the catch and finally blocks of loadLeaderboard
LoadFails ==
  /\ \E k \in 1..Len(pending) : pending' = RemoveAt(pending, k)
  /\ error' = TRUE
  /\ loading' = FALSE
  /\ refreshing' = FALSE
  /\ UNCHANGED <<users, leaderboard, filteredLeaderboard, searchQuery, userFilter,
                 ageRange, loadedFor>>
  /\ UNCHANGED <<statsVars, rankVars, profileVars, authVars>>

\* onChangeText={setSearchQuery}; the search effect runs
SetSearchQuery ==
  /\ \E query \in SearchQueries :
       /\ query # searchQuery
       /\ searchQuery' = query
       /\ filteredLeaderboard' = SearchEffect(leaderboard, query)
  /\ UNCHANGED <<users, leaderboard, userFilter, ageRange, loading, refreshing,
                 error, pending, loadedFor>>
  /\ UNCHANGED <<statsVars, rankVars, profileVars, authVars>>

BoardNext ==
  \/ SetUserFilter
  \/ SetAgeRange
  \/ Refresh
  \/ LoadSucceeds
  \/ LoadFails
  \/ SetSearchQuery

SpecBoard == BoardInit /\ [][BoardNext]_vars

\* ------------------------------------------------------------------------
\* ProfileScreen.loadProfile and AvatarScreen.loadCharacterData
\* progressToNext is the fraction num / den of the number the code stores.
\* Of a rank object the model keeps name, currentPoints, pointsToNext and
\* progressToNext (and level, minPoints, maxPoints when getUserRank built it).
\* ------------------------------------------------------------------------
\* thresholds[currentRank] || 100
getNextRankThreshold(currentRank) ==
  CASE currentRank = "Bronze Fighter" -> 100
    [] currentRank = "Silver Warrior" -> 300
    [] currentRank = "Gold Gladiator" -> 600
    [] currentRank = "Platinum Spartan" -> 1000
    [] currentRank = "Diamond Titan" -> 9999
    [] OTHER -> 100

\* the prevThreshold table of calculateProgressToNext, || 0
PrevThreshold(currentRank) ==
  CASE currentRank = "Bronze Fighter" -> 0
    [] currentRank = "Silver Warrior" -> 100
    [] currentRank = "Gold Gladiator" -> 300
    [] currentRank = "Platinum Spartan" -> 600
    [] currentRank = "Diamond Titan" -> 1000
    [] OTHER -> 0

\* Math.max(0, Math.min(1, progress)), 1.0 for 'Diamond Titan'
calculateProgressToNext(currentPoints, currentRank) ==
  IF currentRank = "Diamond Titan" THEN [num |-> 1, den |-> 1]
  ELSE LET n == currentPoints - PrevThreshold(currentRank)
           d == getNextRankThreshold(currentRank) - PrevThreshold(currentRank)
       IN IF n < 0 THEN [num |-> 0, den |-> 1]
          ELSE IF n > d THEN [num |-> 1, den |-> 1]
          ELSE [num |-> n, den |-> d]

\* the rank object built from the leaderboard entry
DatabaseRank(dbPoints, dbRankTier) ==
  [name |-> dbRankTier,
   currentPoints |-> dbPoints,
   pointsToNext |-> Max2(0, getNextRankThreshold(dbRankTier) - dbPoints),
   progressToNext |-> calculateProgressToNext(dbPoints, dbRankTier)]

\* a || b on strings: a missing or empty string is falsy
OrElseStr(a, b) == IF a = "" THEN b ELSE a

\* the one calculateUserStats call of a load: calculateUserStats(workoutData,
\* user) on the fetched list, or const defaultStats = calculateUserStats([],
\* user) in the catch block of a failed fetch
StatsCall(outcome, eng, clk, hist) ==
  calculateUserStatsWith(eng, "array", IF outcome = "ok" THEN hist ELSE <<>>, clk)

\* what the three fetches of loadProfile do
ProfileOutcomes == {"ok", "leaderboardFails", "workoutsFails", "profileFails"}
\* what the two fetches of loadCharacterData do
AvatarOutcomes == {"ok", "leaderboardFails", "workoutsFails"}

\* the rank and stats set in the catch blocks; array is the workouts state
\* the handler leaves: the fetched list once setWorkouts has run
DefaultsOnFailure(defaultStats, array, failed, path) ==
  [userRank |-> <<getUserRank(calculateRankingPoints(defaultStats))>>,
   userStats |-> <<defaultStats>>,
   workouts |-> array, error |-> failed, path |-> path]

\* the path a failed fetch ends on
FailurePath(outcome) ==
  CASE outcome = "profileFails" -> "profileFailed"
    [] outcome = "workoutsFails" -> "workoutsFailed"
    [] outcome = "leaderboardFails" -> "leaderboardFailed"

\* the state a load leaves when every fetch succeeded: the rank object from
\* the leaderboard entry, or from the computed stats without an entry
LoadedFrom(r, entry, dbPoints) ==
  IF entry # <<>>
  THEN [userRank |->
          <<DatabaseRank(dbPoints, OrElseStr(entry[1].rank_tier, "Bronze Fighter"))>>,
        userStats |-> <<r.stats>>, workouts |-> r.array,
        error |-> FALSE, path |-> "database"]
  ELSE [userRank |-> <<getUserRank(calculateRankingPoints(r.stats))>>,
        userStats |-> <<r.stats>>, workouts |-> r.array,
        error |-> FALSE, path |-> "fallback"]

\* loadProfile leaving userRank null when the profile fetch fails
loadProfile_noDefault(outcome, r, hist, entry, shown) ==
  CASE outcome = "profileFails" ->
         [userRank |-> <<>>, userStats |-> <<>>, workouts |-> shown,
          error |-> TRUE, path |-> "profileFailed"]
    [] outcome \in {"workoutsFails", "leaderboardFails"} ->
         DefaultsOnFailure(r.stats,
                           IF outcome = "leaderboardFails" THEN hist ELSE shown,
                           FALSE, FailurePath(outcome))
    [] OTHER ->
         LoadedFrom(r, entry,
                    IF entry # <<>> THEN OrElse(entry[1].total_points, 0) ELSE 0)

\* ProfileScreen.loadProfile: the state it leaves, by the outcome of its
\* fetches; r is what its calculateUserStats call returned, hist the
\* server's workout list, entry the result of leaderboardData.find(...)
loadProfile(outcome, r, hist, entry, shown) ==
  CASE outcome # "ok" ->
         \* the workouts were set if their fetch succeeded; the error message
         \* is set in the outer catch only
         DefaultsOnFailure(r.stats,
                           IF outcome = "leaderboardFails" THEN hist ELSE shown,
                           outcome = "profileFails", FailurePath(outcome))
    [] OTHER ->
         LoadedFrom(r, entry,
                    IF entry # <<>> THEN OrElse(entry[1].total_points, 0) ELSE 0)

\* AvatarScreen.loadCharacterData
loadCharacterData(outcome, r, hist, entry, shown) ==
  CASE outcome # "ok" ->
         DefaultsOnFailure(r.stats,
                           IF outcome = "leaderboardFails" THEN hist ELSE shown,
                           FALSE, FailurePath(outcome))
    [] OTHER ->
         LoadedFrom(r, entry,
                    IF entry # <<>>
                    THEN OrElse(entry[1].mmr_score, OrElse(entry[1].total_points, 0))
                    ELSE 0)

\* The server: the tier it stores with a point total, and the entry it
\* holds for the user.
ServerTier(points) ==
  IF points >= 1000 THEN "Diamond Titan"
  ELSE IF points >= 600 THEN "Platinum Spartan"
  ELSE IF points >= 300 THEN "Gold Gladiator"
  ELSE IF points >= 100 THEN "Silver Warrior"
  ELSE "Bronze Fighter"

EntryPoints == {0, 50, 200, 450, 800, 1000, 1500}

ServerEntryFor(points) ==
  [user_id |-> 1, total_points |-> points, mmr_score |-> Undefined,
   rank_tier |-> ServerTier(points)]

\* an entry without a point total and without a tier
BlankEntry ==
  [user_id |-> 1, total_points |-> Undefined, mmr_score |-> Undefined,
   rank_tier |-> ""]

\* a user without workouts has no entry or an entry with 0 points
ServerEntries(hist) ==
  IF Len(hist) = 0
  THEN { <<>>, <<BlankEntry>>, <<ServerEntryFor(0)>> }
  ELSE { <<>>, <<BlankEntry>> } \cup { <<ServerEntryFor(p)>> : p \in EntryPoints }

\* the most workouts the server returns for the user
MaxFetched == 2

\* an earlier day, yesterday and today
ProfileDates == {0, MaxTick - TicksPerDay, MaxTick}

ProfileHistories ==
  UNION { { [i \in 1..n |-> [id |-> i, workout_date |-> d[i],
                             exercises |-> ExercisesOf(i)]] :
              d \in [1..n -> ProfileDates] } : n \in 0..MaxFetched }

ProfileInit ==
  /\ zone = "fixed"
  /\ engine = "insertion"
  /\ clock = MaxNow
  /\ passed = "array"
  /\ threw = FALSE
  /\ workouts = <<>>
  /\ stats = <<>>
  /\ given = <<>>
  /\ calledAt = 0
  /\ RankIdle
  /\ BoardIdle
  /\ AuthIdle
  /\ history \in ProfileHistories
  /\ serverEntry \in ServerEntries(history)
  /\ userRank = <<>>
  /\ userStats = <<>>
  /\ profileError = FALSE
  /\ loadPath = NoLoad

\* ProfileScreen mounts or is pulled down to refresh
LoadProfile ==
  /\ \E outcome \in ProfileOutcomes :
       \E computed \in {StatsCall(outcome, engine, clock, history)} :
       \E r \in {loadProfile(outcome, computed, history, serverEntry, workouts)} :
          /\ userRank' = r.userRank
          /\ userStats' = r.userStats
          /\ workouts' = r.workouts
          /\ profileError' = r.error
          /\ loadPath' = [screen |-> "ProfileScreen", path |-> r.path]
  /\ UNCHANGED <<zone, engine, clock, passed, stats, threw, given, calledAt>>
  /\ UNCHANGED <<history, serverEntry>>
  /\ UNCHANGED <<rankVars, boardVars, authVars>>

\* AvatarScreen comes into focus or is pulled down to refresh
LoadCharacterData ==
  /\ \E outcome \in AvatarOutcomes :
       \E computed \in {StatsCall(outcome, engine, clock, history)} :
       \E r \in {loadCharacterData(outcome, computed, history, serverEntry, workouts)} :
          /\ userRank' = r.userRank
          /\ userStats' = r.userStats
          /\ workouts' = r.workouts
          /\ profileError' = r.error
          /\ loadPath' = [screen |-> "AvatarScreen", path |-> r.path]
  /\ UNCHANGED <<zone, engine, clock, passed, stats, threw, given, calledAt>>
  /\ UNCHANGED <<history, serverEntry>>
  /\ UNCHANGED <<rankVars, boardVars, authVars>>

ProfileNext == LoadProfile \/ LoadCharacterData

SpecProfile == ProfileInit /\ [][ProfileNext]_vars

\* ------------------------------------------------------------------------
\* AuthContext: the session in memory and in AsyncStorage. Every await of
\* an AsyncStorage or network operation ends a step; the code up to the
\* next await, that operation's effect included, is the next step.
\* ------------------------------------------------------------------------
MaxLogouts == 2
MaxRequests == 2

\* what AsyncStorage can hold when the app starts: nothing, a value an
\* earlier run stored, or (under 'user') text that is not valid JSON
StoredTokens == {Null, "stored"}
StoredUsers == {Null, "stored", "corrupt"}

NotRunning == [at |-> "idle", caller |-> "none"]

authRest == <<statsVars, rankVars, boardVars, profileVars>>

AuthInit ==
  /\ asyncStorage \in [auth_token : StoredTokens, user : StoredUsers]
  /\ token = Null
  /\ user = Null
  /\ authLoading = TRUE
  /\ authError = ""
  /\ authorization = Null
  /\ boot = "getToken"
  /\ storedToken = Null
  /\ userJson = Null
  /\ loginAt = "idle"
  /\ logouts = [j \in 1..MaxLogouts |-> NotRunning]
  /\ screen = "Login"
  /\ inFlight = 0
  /\ StatsIdle
  /\ RankIdle
  /\ BoardIdle
  /\ ProfileIdle

\* const storedToken = await AsyncStorage.getItem('auth_token'), which
\* resolves or rejects
BootGetToken ==
  /\ boot = "getToken"
  /\ \E resolves \in BOOLEAN :
       IF resolves
       THEN storedToken' = asyncStorage.auth_token /\ boot' = "getUser"
       ELSE storedToken' = storedToken /\ boot' = "removeToken"
  /\ UNCHANGED <<asyncStorage, token, user, authLoading, authError, authorization,
                 userJson, loginAt, logouts, screen, inFlight>>
  /\ UNCHANGED authRest

\* const userJson = await AsyncStorage.getItem('user')
BootGetUser ==
  /\ boot = "getUser"
  /\ \E resolves \in BOOLEAN :
       IF resolves
       THEN userJson' = asyncStorage.user /\ boot' = "apply"
       ELSE userJson' = userJson /\ boot' = "removeToken"
  /\ UNCHANGED <<asyncStorage, token, user, authLoading, authError, authorization,
                 storedToken, loginAt, logouts, screen, inFlight>>
  /\ UNCHANGED authRest

\* if (storedToken) setToken(storedToken);
\* if (userJson) setUser(JSON.parse(userJson)); JSON.parse throws on text
\* that is not JSON, after setToken has run; without a throw the finally
\* block follows at once
BootApply ==
  /\ boot = "apply"
  /\ token' = IF storedToken # Null THEN storedToken ELSE token
  /\ IF userJson = "corrupt"
     THEN /\ boot' = "removeToken"
          /\ UNCHANGED <<user, authLoading>>
     ELSE /\ user' = IF userJson # Null THEN userJson ELSE user
          /\ authLoading' = FALSE
          /\ boot' = "done"
  /\ UNCHANGED <<asyncStorage, authError, authorization, storedToken, userJson,
                 loginAt, logouts, screen, inFlight>>
  /\ UNCHANGED authRest

\* catch: await AsyncStorage.removeItem('auth_token')
BootRemoveToken ==
  /\ boot = "removeToken"
  /\ asyncStorage' = [asyncStorage EXCEPT !.auth_token = Null]
  /\ boot' = "removeUser"
  /\ UNCHANGED <<token, user, authLoading, authError, authorization, storedToken,
                 userJson, loginAt, logouts, screen, inFlight>>
  /\ UNCHANGED authRest

\* catch: await AsyncStorage.removeItem('user')
BootRemoveUser ==
  /\ boot = "removeUser"
  /\ asyncStorage' = [asyncStorage EXCEPT !.user = Null]
  /\ boot' = "finally"
  /\ UNCHANGED <<token, user, authLoading, authError, authorization, storedToken,
                 userJson, loginAt, logouts, screen, inFlight>>
  /\ UNCHANGED authRest

\* finally: setLoading(false), at the end of a boot that went through catch
BootFinally ==
  /\ boot = "finally"
  /\ authLoading' = FALSE
  /\ boot' = "cleared"
  /\ UNCHANGED <<asyncStorage, token, user, authError, authorization, storedToken,
                 userJson, loginAt, logouts, screen, inFlight>>
  /\ UNCHANGED authRest

\* LoginScreen's button, disabled while loading: login() up to the await of
\* axios.post
LoginStart ==
  /\ screen = "Login"
  /\ ~authLoading
  /\ loginAt = "idle"
  /\ authError' = ""
  /\ authLoading' = TRUE
  /\ loginAt' = "post"
  /\ UNCHANGED <<asyncStorage, token, user, authorization, boot, storedToken,
                 userJson, logouts, screen, inFlight>>
  /\ UNCHANGED authRest

\* axios.post rejects: catch and finally
LoginPostFails ==
  /\ loginAt = "post"
  /\ authError' = "Login failed"
  /\ authLoading' = FALSE
  /\ loginAt' = "idle"
  /\ UNCHANGED <<asyncStorage, token, user, authorization, boot, storedToken,
                 userJson, logouts, screen, inFlight>>
  /\ UNCHANGED authRest

\* axios.post resolves: await AsyncStorage.setItem('auth_token', access_token)
LoginStoreToken ==
  /\ loginAt = "post"
  /\ asyncStorage' = [asyncStorage EXCEPT !.auth_token = "fresh"]
  /\ loginAt' = "setUser"
  /\ UNCHANGED <<token, user, authLoading, authError, authorization, boot,
                 storedToken, userJson, logouts, screen, inFlight>>
  /\ UNCHANGED authRest

\* await AsyncStorage.setItem('user', JSON.stringify({...}))
LoginStoreUser ==
  /\ loginAt = "setUser"
  /\ asyncStorage' = [asyncStorage EXCEPT !.user = "fresh"]
  /\ loginAt' = "commit"
  /\ UNCHANGED <<token, user, authLoading, authError, authorization, boot,
                 storedToken, userJson, logouts, screen, inFlight>>
  /\ UNCHANGED authRest

\* the rest of login: the default header, setToken, setUser, finally
\* setLoading(false); handleLogin then replaces the route by Home
LoginCommit ==
  /\ loginAt = "commit"
  /\ authorization' = "fresh"
  /\ token' = "fresh"
  /\ user' = "fresh"
  /\ authLoading' = FALSE
  /\ loginAt' = "idle"
  /\ screen' = "Home"
  /\ UNCHANGED <<asyncStorage, authError, boot, storedToken, userJson, logouts,
                 inFlight>>
  /\ UNCHANGED authRest

\* a main screen sends a request through api
ApiRequest ==
  /\ screen = "Home"
  /\ inFlight < MaxRequests
  /\ inFlight' = inFlight + 1
  /\ UNCHANGED <<asyncStorage, token, user, authLoading, authError, authorization,
                 boot, storedToken, userJson, loginAt, logouts, screen>>
  /\ UNCHANGED authRest

\* a response whose status is not 401 passes the interceptor
ApiResponse ==
  /\ inFlight > 0
  /\ inFlight' = inFlight - 1
  /\ UNCHANGED <<asyncStorage, token, user, authLoading, authError, authorization,
                 boot, storedToken, userJson, loginAt, logouts, screen>>
  /\ UNCHANGED authRest

\* logout() up to its first await: AsyncStorage.removeItem('auth_token')
logout(j, caller) ==
  /\ logouts[j] = NotRunning
  /\ asyncStorage' = [asyncStorage EXCEPT !.auth_token = Null]
  /\ logouts' = [logouts EXCEPT ![j] = [at |-> "removeUser", caller |-> caller]]

\* the response interceptor: a 401 response calls logout()
Api401 ==
  /\ inFlight > 0
  /\ inFlight' = inFlight - 1
  /\ \E j \in 1..MaxLogouts : logout(j, "interceptor")
  /\ UNCHANGED <<token, user, authLoading, authError, authorization, boot,
                 storedToken, userJson, loginAt, screen>>
  /\ UNCHANGED authRest

\* ProfileScreen's handleLogout: await logout()
HandleLogout ==
  /\ screen = "Home"
  /\ \E j \in 1..MaxLogouts : logout(j, "handleLogout")
  /\ UNCHANGED <<token, user, authLoading, authError, authorization, boot,
                 storedToken, userJson, loginAt, screen, inFlight>>
  /\ UNCHANGED authRest

\* await AsyncStorage.removeItem('user')
LogoutRemoveUser ==
  /\ \E j \in 1..MaxLogouts :
       /\ logouts[j].at = "removeUser"
       /\ logouts' = [logouts EXCEPT ![j].at = "clear"]
  /\ asyncStorage' = [asyncStorage EXCEPT !.user = Null]
  /\ UNCHANGED <<token, user, authLoading, authError, authorization, boot,
                 storedToken, userJson, loginAt, screen, inFlight>>
  /\ UNCHANGED authRest

\* the rest of logout: the default header, setToken(null), setUser(null);
\* handleLogout then resets the navigator to Login
LogoutClear ==
  /\ \E j \in 1..MaxLogouts :
       /\ logouts[j].at = "clear"
       /\ logouts' = [logouts EXCEPT ![j] = NotRunning]
       /\ screen' = IF logouts[j].caller = "handleLogout" THEN "Login" ELSE screen
  /\ authorization' = Null
  /\ token' = Null
  /\ user' = Null
  /\ UNCHANGED <<asyncStorage, authLoading, authError, boot, storedToken, userJson,
                 loginAt, inFlight>>
  /\ UNCHANGED authRest

AuthNext ==
  \/ BootGetToken
  \/ BootGetUser
  \/ BootApply
  \/ BootRemoveToken
  \/ BootRemoveUser
  \/ BootFinally
  \/ LoginStart
  \/ LoginPostFails
  \/ LoginStoreToken
  \/ LoginStoreUser
  \/ LoginCommit
  \/ ApiRequest
  \/ ApiResponse
  \/ Api401
  \/ HandleLogout
  \/ LogoutRemoveUser
  \/ LogoutClear

SpecAuth == AuthInit /\ [][AuthNext]_vars

\* ------------------------------------------------------------------------
\* Claims about the stats engine
\* ------------------------------------------------------------------------
Called == stats # <<>>
Result == stats[1]
IsCount(x) == ~IsNaN(x) /\ x >= 0
HasInvalidDate(array) == \E i \in 1..Len(array) : IsNaN(array[i].workout_date)
ValidDate(w) == ~IsNaN(w.workout_date)

\* C1: every UserStats that calculateUserStats returns has
\* longestStreak >= currentStreak, and both are 0 for an empty history.
C1_LongestAtLeastCurrent ==
  Called =>
    /\ Result.longestStreak >= Result.currentStreak
    /\ (Len(given) = 0 => Result.longestStreak = 0 /\ Result.currentStreak = 0)

\* C8: after calculateUserStats the caller's array holds the same records in
\* the same order as before the call.
C8_InputNotModified == Called => workouts = given

\* C9: every call of calculateUserStats on the same collection returns the
\* same UserStats, whatever the clock reads.
C9_PureFunction == [][(Called /\ given' = given) => stats' = stats]_vars

SameButCurrentStreak(a, b) ==
  [a EXCEPT !.currentStreak = 0] = [b EXCEPT !.currentStreak = 0]

\* C9 (amended): the clock is the only input besides the collection, and it
\* reaches currentStreak only: a repeated call on the same records in the
\* same order returns the same UserStats on the same calendar day, and on
\* any other day UserStats that differ in currentStreak at most.
C9_ClockMovesCurrentStreakOnly ==
  [][(Called /\ given' = given) =>
       /\ SameButCurrentStreak(stats'[1], stats[1])
       /\ (calledAt' = calledAt => stats' = stats)]_vars

\* a call has returned, and repeating it now on the unchanged array returns
\* another currentStreak
C9_Witness ==
  /\ Called
  /\ workouts = given
  /\ StartOfDay(clock) # calledAt
  /\ calculateUserStats(engine, workouts, clock).stats.currentStreak
       # Result.currentStreak

\* C10: a record with a missing or unparseable date is left out of the
\* streak and day-span computation: the call returns the currentStreak,
\* longestStreak and workoutDays of the collection without such records,
\* all valid counts, and the point total is a valid count.
C10_InvalidDateExcluded ==
  (Called /\ HasInvalidDate(given)) =>
    LET clean == calculateUserStats(engine, SelectSeq(given, ValidDate), calledAt).stats
    IN /\ Result.currentStreak = clean.currentStreak
       /\ Result.longestStreak = clean.longestStreak
       /\ Result.workoutDays = clean.workoutDays
       /\ IsCount(Result.currentStreak)
       /\ IsCount(Result.longestStreak)
       /\ IsCount(Result.workoutDays)
       /\ IsCount(calculateRankingPoints(Result))

\* the local days on which the collection of the last call has workouts
GivenDays == { DayOf(zone, given[i].workout_date) : i \in 1..Len(given) }
FirstDay == CHOOSE d \in GivenDays : \A e \in GivenDays : d <= e
LastDay == CHOOSE d \in GivenDays : \A e \in GivenDays : d >= e
Today == DayOf(zone, calledAt)

\* C14: when the workouts fall on k consecutive calendar days and on no
\* other day, and the last of these days is today or yesterday, the call
\* returns currentStreak = k and longestStreak = k.
C14_ConsecutiveRunIsBothStreaks ==
  (/\ Called
   /\ Len(given) > 0
   /\ GivenDays = FirstDay..LastDay
   /\ LastDay \in {Today, Today - 1}) =>
    /\ Result.currentStreak = Cardinality(GivenDays)
    /\ Result.longestStreak = Cardinality(GivenDays)

\* the number of consecutive local days with a workout that end with day d
RECURSIVE RunEndingOn(_)
RunEndingOn(d) == IF d \in GivenDays THEN 1 + RunEndingOn(d - 1) ELSE 0

\* C15: the current streak is the length of the run of consecutive calendar
\* days with a workout that ends today or, when today has none, yesterday:
\* each counted day is exactly one day before the one counted before it, and
\* nothing is counted beyond the first missing day.
C15_CurrentStreakStopsAtGap ==
  (/\ Called
   /\ Len(given) > 0
   /\ ~HasInvalidDate(given)
   /\ LastDay <= Today) =>
    Result.currentStreak =
      IF Today \in GivenDays THEN RunEndingOn(Today) ELSE RunEndingOn(Today - 1)

\* C11: calculateUserStats called with an empty array, null or undefined does
\* not throw and returns the UserStats whose seven fields are 0; scoring that
\* result gives 0 points, the lowest tier, and pointsToNext equal to the
\* lowest tier's maxPoints + 1.
C11_EmptyGivesZeroStats ==
  ((Called \/ threw) /\ (passed # "array" \/ Len(given) = 0)) =>
    /\ ~threw
    /\ DOMAIN Result = DOMAIN ZeroStats
    /\ \A f \in DOMAIN Result : Result[f] = 0
    /\ LET points == calculateRankingPoints(Result)
           r == getUserRank(points)
       IN /\ points = 0
          /\ r.level = 1
          /\ r.name = RANKS[1].name
          /\ r.pointsToNext = RANKS[1].maxPoints + 1

C11_Witness == Called /\ passed = "null" /\ Result = ZeroStats /\ ~threw

\* C21: an empty collection gives currentStreak 0 and longestStreak 0; a
\* single workout dated today gives currentStreak 1; a single workout dated
\* neither today nor yesterday gives currentStreak 0 and longestStreak 1.
C21_StreakEdgeCases ==
  (Called /\ ~HasInvalidDate(given)) =>
    /\ (Len(given) = 0 =>
          Result.currentStreak = 0 /\ Result.longestStreak = 0)
    /\ ((Len(given) = 1 /\ GivenDays = {Today}) =>
          Result.currentStreak = 1)
    /\ ((Len(given) = 1 /\ GivenDays \cap {Today, Today - 1} = {}) =>
          Result.currentStreak = 0 /\ Result.longestStreak = 1)

\* the length of the longest run of consecutive local days with a workout
LongestRun ==
  IF GivenDays = {} THEN 0
  ELSE CHOOSE n \in { RunEndingOn(d) : d \in GivenDays } :
         \A d \in GivenDays : RunEndingOn(d) <= n

\* C22: longestStreak is the length of the longest run of consecutive
\* calendar days among the distinct workout days, so it is a function of the
\* set of days alone and does not depend on the order of the records.
C22_LongestStreakIsLongestRun ==
  (Called /\ ~HasInvalidDate(given)) => Result.longestStreak = LongestRun

\* the collection of the last call without its i-th record
GivenWithout(i) == SubSeq(given, 1, i - 1) \o SubSeq(given, i + 1, Len(given))
\* the i-th record of the last call shares its local day with another one
SharesDay(i) ==
  \E j \in 1..Len(given) :
     /\ j # i
     /\ DayOf(zone, given[j].workout_date) = DayOf(zone, given[i].workout_date)

GivenNames ==
  UNION { { given[i].exercises[j] : j \in 1..Len(given[i].exercises) } \ {""} :
            i \in 1..Len(given) }

\* C24: totalExercises is the number of distinct exercise names across all
\* records compared case-insensitively, so names that differ in letter case
\* only count once, and it never exceeds the number of distinct names present.
C24_TotalExercisesDistinctNames ==
  (Called /\ Len(given) > 0) =>
    /\ Result.totalExercises = Cardinality({ ToLowerCase(n) : n \in GivenNames })
    /\ Result.totalExercises <= Cardinality(GivenNames)

\* C25: workoutDays is the inclusive number of calendar days from the
\* earliest to the latest workout date (latest - earliest + 1), at least 1
\* for a collection with workouts, and 0 for an empty one.
C25_WorkoutDaysInclusiveSpan ==
  (Called /\ ~HasInvalidDate(given)) =>
    IF Len(given) = 0
    THEN Result.workoutDays = 0
    ELSE /\ Result.workoutDays = LastDay - FirstDay + 1
         /\ Result.workoutDays >= 1

\* C26: consistencyScore is min(100, floor(totalWorkouts /
\* max(1, workoutDays / 7) * 20)), an integer from 0 to 100, and it is 100
\* exactly when the rate is at least 5 workouts per week, a history shorter
\* than a week counting as one week.
C26_ConsistencyScoreFormula ==
  (Called /\ Len(given) > 0 /\ ~HasInvalidDate(given)) =>
    LET tw == Result.totalWorkouts
        days == Max2(7, Result.workoutDays)
    IN /\ Result.consistencyScore = Min2(100, (tw * 140) \div days)
       /\ Result.consistencyScore \in 0..100
       /\ (Result.consistencyScore = 100 <=> tw * 7 >= 5 * days)

\* ------------------------------------------------------------------------
\* Claims about scoring and tier resolution
\* ------------------------------------------------------------------------
Scored == scoreOut # <<>>
Points == scoreOut[1]
Resolved == rank # <<>>
Rank == rank[1]
NonNegative(s) == \A f \in StatFields : s[f] >= 0

\* C2: exactly one tier's range contains a non-negative integer point total,
\* getUserRank returns that tier, and a total equal to a tier's minPoints
\* resolves to that tier.
C2_TiersPartition ==
  (Resolved /\ total >= 0) =>
    /\ Cardinality({ i \in 1..Len(RANKS) : InRange(total, RANKS[i]) }) = 1
    /\ InRange(total, RANKS[Rank.level])
    /\ Rank.name = RANKS[Rank.level].name
    /\ Rank.currentPoints = total
    /\ \A i \in 1..Len(RANKS) : total = RANKS[i].minPoints => Rank.level = i

C2_Witness == Resolved /\ total = 300 /\ Rank.name = "Gold"

\* C3: raising one field of the UserStats never lowers the point total.
C3_Monotone ==
  scorePrev # <<>> => Points >= scorePrev[1].points

C3_Witness ==
  /\ scorePrev # <<>>
  /\ Points > scorePrev[1].points
  /\ scoreIn.totalExercises > scorePrev[1].stats.totalExercises

FormulaPoints(s) ==
  2 * s.totalWorkouts + 3 * s.currentStreak + s.longestStreak
    + (s.totalExercises \div 5) + s.consistencyScore
    + 10 * s.personalRecords + (s.workoutDays \div 7)

\* C4: for UserStats with non-negative fields the point total is
\* 2*totalWorkouts + 3*currentStreak + longestStreak + floor(totalExercises/5)
\* + consistencyScore + 10*personalRecords + floor(workoutDays/7), a
\* non-negative integer; 323 for the documented example.
C4_Formula ==
  (Scored /\ NonNegative(scoreIn)) =>
    /\ Points = FormulaPoints(scoreIn)
    /\ Points >= 0
    /\ (scoreIn = ExampleStats => Points = 323)

C4_Witness == Scored /\ scoreIn = ExampleStats /\ Points = 323

\* C5 (as claimed): a point total of 323 resolves to the second tier.
C5_Example323SecondTier ==
  (Resolved /\ total = 323) => Rank.level = 2

\* C5 (amended): a point total of 323 resolves to the third tier, Gold,
\* whose range is 300..599.
C5_Example323ThirdTier ==
  (Resolved /\ total = 323) => (Rank.level = 3 /\ Rank.name = "Gold")

C5_Witness == Resolved /\ total = 323 /\ scoreIn = ExampleStats /\ Scored

\* C12 (as claimed): at 0 points the progressToNext of getUserRank is
\* strictly greater than 0%.
C12_ZeroPointsProgressPositive ==
  (Resolved /\ total = 0) => Rank.progressToNext.num > 0

\* C12 (amended): at 0 points getUserRank returns the lowest tier with
\* progressToNext exactly 0%; within a tier below the top one the progress is
\* above 0% exactly when the total is above the tier's minPoints.
C12_ZeroPointsProgressZero ==
  (Resolved /\ total >= 0) =>
    /\ Rank.progressToNext.den > 0
    /\ (total = 0 => Rank.level = 1 /\ Rank.progressToNext.num = 0)
    /\ (Rank.level < Len(RANKS) =>
          (Rank.progressToNext.num > 0 <=> total > Rank.minPoints))

C12_Witness ==
  /\ Resolved /\ Scored
  /\ scoreIn = ZeroStats
  /\ total = 0
  /\ Rank.progressToNext.num = 0

\* C16: below the top tier progressToNext is
\* 100 * (points - tier.minPoints) / (upper - tier.minPoints), upper being the
\* exclusive upper bound of the tier (the next tier's minPoints); in the top
\* tier it is 100.  (Within the tier the value needs no clamping.)
C16_ProgressOverClosedOpenRange ==
  (Resolved /\ total >= 0) =>
    IF Rank.level = Len(RANKS)
    THEN Rank.progressToNext.num = 100 * Rank.progressToNext.den
    ELSE LET upper == RANKS[Rank.level + 1].minPoints
         IN Rank.progressToNext.num * (upper - Rank.minPoints)
              = 100 * (total - Rank.minPoints) * Rank.progressToNext.den

\* C17: below the top tier points + pointsToNext is the minPoints of the
\* next tier, which is the tier getNextRank returns, one level above the
\* tier of getUserRank; in the top tier pointsToNext is 0 and getNextRank
\* returns null.
C17_PointsToNextReachesNextTier ==
  (Resolved /\ total >= 0) =>
    IF Rank.level < Len(RANKS)
    THEN /\ getNextRank(total) = Rank.level + 1
         /\ total + Rank.pointsToNext = RANKS[getNextRank(total)].minPoints
         /\ Rank.pointsToNext > 0
    ELSE /\ Rank.pointsToNext = 0
         /\ getNextRank(total) = NoRank

C17_Witness ==
  /\ Resolved
  /\ total = 299
  /\ Rank.name = "Silver"
  /\ Rank.pointsToNext = 1
  /\ RANKS[getNextRank(total)].name = "Gold"

\* a UserStats with every negative field replaced by 0
ClampedStats(s) == [f \in DOMAIN s |-> IF s[f] < 0 THEN 0 ELSE s[f]]

\* C20: the point total of a UserStats with negative fields is the point
\* total of the UserStats in which those fields are 0.
C20_NegativeFieldsCountAsZero ==
  Scored => Points = calculateRankingPoints(ClampedStats(scoreIn))

\* C30: the tier is monotone in the point total: for non-negative integers
\* p <= q the level getUserRank returns for p is at most the level it returns
\* for q, and the level is always one of 1..5.
C30_TierMonotone ==
  (Resolved /\ total >= 0) =>
    /\ Rank.level \in 1..5
    /\ \A d \in 1..MaxRaise :
         LET higher == getUserRank(total + d)
         IN /\ higher.level \in 1..5
            /\ Rank.level <= higher.level

\* the last total of a tier is resolved, and one point more resolves to the
\* next tier
C30_Witness ==
  /\ Resolved
  /\ total = 299
  /\ Rank.level = 2
  /\ getUserRank(total + 1).level = 3

\* ------------------------------------------------------------------------
\* Claims about the leaderboard view
\* ------------------------------------------------------------------------
Loaded == loadedFor # <<>>
Searching == StrTrim(searchQuery) # <<>>
UpstreamIndex(id) == CHOOSE k \in 1..Len(users) : users[k].user_id = id

InView(row) ==
  /\ Passes(row, loadedFor[1])
  /\ (Searching => StrIncludes(StrLower(row.username), StrLower(searchQuery)))

Outranks(a, b) ==
  \/ a.total_points > b.total_points
  \/ a.total_points = b.total_points
       /\ UpstreamIndex(a.user_id) < UpstreamIndex(b.user_id)

C29_LatestRequestWins ==
  /\ (pending = <<>> /\ ~error) =>
       loadedFor = <<Request(userFilter, ageRange)>>
  /\ (~loading => pending = <<>>)

\* ------------------------------------------------------------------------
\* Claims about the rank the profile and avatar screens store
\* ------------------------------------------------------------------------
ProfileWasLoaded == loadPath.screen # "none"
UserRank == userRank[1]
BronzeNames == {"Bronze", "Bronze Fighter"}

\* C13: whatever path loadProfile finished by, a user without workout
\* history has a userRank that is not null and shows the Bronze tier,
\* 0 points and 0% progress.
C13_NoHistoryShowsBronze ==
  (loadPath.screen = "ProfileScreen" /\ Len(history) = 0) =>
    /\ userRank # <<>>
    /\ UserRank.name \in BronzeNames
    /\ UserRank.currentPoints = 0
    /\ UserRank.progressToNext.num = 0

C13_Witness ==
  /\ loadPath = [screen |-> "ProfileScreen", path |-> "profileFailed"]
  /\ Len(history) = 0
  /\ profileError
  /\ userRank # <<>>
  /\ UserRank.name = "Bronze"

\* the tier a stored rank object names: its index in RANKS
TierOf(name) ==
  CASE name \in {"Bronze", "Bronze Fighter"} -> 1
    [] name \in {"Silver", "Silver Warrior"} -> 2
    [] name \in {"Gold", "Gold Gladiator"} -> 3
    [] name \in {"Platinum", "Platinum Spartan"} -> 4
    [] name \in {"Diamond", "Diamond Titan"} -> 5

\* C18: a stored rank object of a user in the top tier has pointsToNext = 0,
\* on the database path and on the local fallback path.
C18_TopTierNothingToNext ==
  (ProfileWasLoaded /\ userRank # <<>> /\ TierOf(UserRank.name) = Len(RANKS)) =>
    UserRank.pointsToNext = 0

\* the point total lies halfway between the tier's minPoints and the next
\* tier's minPoints
Halfway(r) ==
  /\ TierOf(r.name) < Len(RANKS)
  /\ 2 * (r.currentPoints - RANKS[TierOf(r.name)].minPoints)
       = RANKS[TierOf(r.name) + 1].minPoints - RANKS[TierOf(r.name)].minPoints

\* C19: the progressToNext of a stored rank object is a percentage between 0
\* and 100: 100 in the top tier, 50 halfway through a tier.
C19_ProgressIsPercentage ==
  (ProfileWasLoaded /\ userRank # <<>>) =>
    /\ (TierOf(UserRank.name) = Len(RANKS) =>
          UserRank.progressToNext.num = 100 * UserRank.progressToNext.den)
    /\ (Halfway(UserRank) =>
          UserRank.progressToNext.num = 50 * UserRank.progressToNext.den)

\* ------------------------------------------------------------------------
\* Claims about the session
\* ------------------------------------------------------------------------
\* no login or logout call is in progress, and boot is over
Quiescent ==
  /\ boot \in {"done", "cleared"}
  /\ loginAt = "idle"
  /\ \A j \in 1..Len(logouts) : logouts[j] = NotRunning

\* C27: whenever no login or logout call is in progress, after a boot that
\* read the stored session, the context's token is non-null exactly when
\* AsyncStorage holds 'auth_token', and user is non-null exactly when
\* AsyncStorage holds 'user', whatever way login and logout calls (the
\* interceptor's included) have interleaved.
C27_SessionAgreesWithStorage ==
  (Quiescent /\ boot = "done") =>
    /\ (token # Null <=> asyncStorage.auth_token # Null)
    /\ (user # Null <=> asyncStorage.user # Null)

\* C28: a boot that fails to read the stored session ends fully logged out:
\* 'auth_token' and 'user' are removed from AsyncStorage, token and user are
\* null in memory, and loading is false.
C28_FailedBootEndsLoggedOut ==
  [][(boot # "cleared" /\ boot' = "cleared") =>
       /\ asyncStorage' = [auth_token |-> Null, user |-> Null]
       /\ token' = Null
       /\ user' = Null
       /\ authLoading' = FALSE]_vars

====
